---- MODULE Spec2Model ----
(***************************************************************************)
(* Admin front-end of the registry web application: the admin route guard, *)
(* the admin user lookup route, the user's crates route, the profile       *)
(* controller (lock state derivation, lock / unlock tasks) and the User    *)
(* model's remote mutations.                                               *)
(*                                                                         *)
(* Four specifications share the variables:                                *)
(*   Spec       the profile controller and its lock / unlock tasks         *)
(*   SpecDerive the controller's derived lock state and asPayload()        *)
(*   SpecRoute  navigation through the admin routes                        *)
(*   SpecUser   the User model's changeEmail / updatePublishNotifications /*)
(*              resendVerificationEmail                                    *)
(*                                                                         *)
(* JavaScript values that may be null / undefined are modelled as          *)
(* sequences of length at most one: <<>> is null / undefined, <<v>> is v.  *)
(* Time is counted in days.                                                *)
(***************************************************************************)
EXTENDS Integers, Sequences, FiniteSets, TLC

VARIABLES
    days,       \* profile controller: @tracked days (text, a sequence of characters)
    reason,     \* profile controller: @tracked reason
    user,       \* the cached user record (store), controller's model.user
    now,        \* the wall clock, what new Date() / Date.now() reads
    runs,       \* the task instances of lockTask / unlockTask
    server,     \* the remote service: the lock it holds, and how many writes it has processed
    lastPush,   \* history: the last lock / unlock response pushed into the store
    session,    \* session service: authenticated, isAdmin, savedTransition
    nav,        \* the navigation in progress: target, params, position, events issued
    navCount,   \* number of navigations started so far
    calls       \* the invocations of the User model's remote actions

vars == <<days, reason, user, now, runs, server, lastPush, session, nav, navCount, calls>>

(***************************************************************************)
(* Bounds of the model.                                                    *)
(***************************************************************************)
MaxRuns == 2
MaxTime == 1
MaxNavs == 2
MaxCalls == 2

(***************************************************************************)
(* Optional values.                                                        *)
(***************************************************************************)
None == <<>>

Some(v) == <<v>>

\* JavaScript truthiness of an optional string: null, undefined and '' are falsy.
TruthyStr(o) == o /= None /\ o[1] /= ""

\* JavaScript truthiness of an optional object (a date, a record): only null / undefined is falsy.
TruthyObj(o) == o /= None

(***************************************************************************)
(* The store: a push merges the attributes the payload carries into the    *)
(* cached record and keeps the others.                                     *)
(***************************************************************************)
StorePush(cached, attrs) ==
    [f \in DOMAIN cached |-> IF f \in DOMAIN attrs THEN attrs[f] ELSE cached[f]]

(***************************************************************************)
(* Profile controller: reset()                                             *)
(***************************************************************************)
DefaultDays == <<"7">>

DefaultReason == "Please contact help@crates.io."

resetDays == DefaultDays

resetReason == DefaultReason

(***************************************************************************)
(* Profile controller: lock state derivation.                              *)
(***************************************************************************)
\* model.user.lock?.reason
lockReason == IF user.lock = None THEN None ELSE user.lock[1].reason

\* model.user.lock?.until
lockedUntil == IF user.lock = None THEN None ELSE user.lock[1].until

\* date-fns isFuture(date): date is after Date.now()
isFutureWrong(t) == t >= now

isFuture(t) == t > now

isCurrentlyLocked ==
    IF ~TruthyStr(lockReason) THEN FALSE
    ELSE IF ~TruthyObj(lockedUntil) THEN TRUE
    ELSE isFuture(lockedUntil[1])

\* lockReason && !isCurrentlyLocked : the value is lockReason itself when that is
\* falsy, so only its truthiness is modelled.
wasPreviouslyLocked == TruthyStr(lockReason) /\ ~isCurrentlyLocked

(***************************************************************************)
(* Number(text): the string to number conversion of new Number(days).      *)
(* White space is trimmed; the empty string converts to 0; an optionally   *)
(* signed run of decimal digits converts to its value; every other text of *)
(* the alphabet used here is NaN (None).                                   *)
(***************************************************************************)
Digits == {"0", "1", "2", "3", "4", "5", "6", "7", "8", "9"}

WhiteSpace == {" ", "\t"}

DigitValue(c) ==
    CASE c = "0" -> 0 [] c = "1" -> 1 [] c = "2" -> 2 [] c = "3" -> 3 [] c = "4" -> 4
      [] c = "5" -> 5 [] c = "6" -> 6 [] c = "7" -> 7 [] c = "8" -> 8 [] c = "9" -> 9

RECURSIVE TrimStart(_)
TrimStart(s) ==
    IF s /= <<>> /\ Head(s) \in WhiteSpace THEN TrimStart(Tail(s)) ELSE s

RECURSIVE TrimEnd(_)
TrimEnd(s) ==
    IF s /= <<>> /\ s[Len(s)] \in WhiteSpace THEN TrimEnd(SubSeq(s, 1, Len(s) - 1)) ELSE s

Trim(s) == TrimEnd(TrimStart(s))

RECURSIVE DecimalValue(_)
DecimalValue(s) ==
    IF s = <<>> THEN 0 ELSE 10 * DecimalValue(SubSeq(s, 1, Len(s) - 1)) + DigitValue(s[Len(s)])

AllDigits(s) == s /= <<>> /\ \A i \in 1..Len(s) : s[i] \in Digits

ToNumber(text) ==
    LET t == Trim(text) IN
    IF t = <<>> THEN Some(0)
    ELSE IF AllDigits(t) THEN Some(DecimalValue(t))
    ELSE IF Head(t) = "+" /\ AllDigits(Tail(t)) THEN Some(DecimalValue(Tail(t)))
    ELSE IF Head(t) = "-" /\ AllDigits(Tail(t)) THEN Some(0 - DecimalValue(Tail(t)))
    ELSE None

\* date-fns addDays(date, amount)
addDays(date, amount) == date + amount

(***************************************************************************)
(* Profile controller: asPayload()                                         *)
(***************************************************************************)
asPayload(d, r, t) ==
    LET n == ToNumber(d) IN
    [reason |-> r,
     until  |-> IF n /= None THEN Some(addDays(t, n[1])) ELSE None]

(***************************************************************************)
(* The user record, as the store caches it and as the server represents it.*)
(***************************************************************************)
Login == "alice"

Emails == {"old@example.com", "new@example.com"}

UserRecord(lock) ==
    [id |-> "42", login |-> Login, email |-> "old@example.com", email_verified |-> TRUE,
     email_verification_sent |-> FALSE, publish_notifications |-> TRUE, lock |-> lock]

LockRecord(r, u) == Some([reason |-> r, until |-> u])

\* The lock records a fetched user can carry.
InitLocks ==
    {None, LockRecord(None, None), LockRecord(None, Some(MaxTime)), LockRecord(Some(""), None),
     LockRecord(Some("spam"), None), LockRecord(Some("spam"), Some(0)),
     LockRecord(Some("spam"), Some(MaxTime))}

\* What the operator can type into the days field and the reason field.
DaysTexts ==
    {<<"7">>, <<"3">>, <<"1", "0">>, <<"0">>, <<" ", "2", " ">>, <<"-", "1">>, <<"+", "1">>,
     <<>>, <<" ">>, <<" ", "\t">>, <<"a", "b", "c">>, <<"7", "d">>, <<"-">>}

\* The lock records and the day texts the lock / unlock specification runs over.
SomeLocks == {None, LockRecord(Some("spam"), Some(0))}

SomeDaysTexts == {<<"7">>, <<>>, <<"a", "b", "c">>}

ReasonTexts == {DefaultReason, "spam"}

(***************************************************************************)
(* Task instances of lockTask / unlockTask.                                *)
(*   pc: idle -> awaiting (the request is in flight) -> fulfilled/rejected *)
(*       (the response is back, the task not yet resumed) -> done          *)
(***************************************************************************)
Runs == 1..MaxRuns

IdleRun ==
    [kind |-> "none", pc |-> "idle", request |-> None, sent |-> 0, response |-> None,
     seq |-> 0, notes |-> <<>>, sentry |-> 0, thrown |-> FALSE, outcome |-> "none"]

LockUrl == <<"/api/v1/users/", user.login, "/lock">>

\* Task instances are numbered in the order they are performed.
NextRun(r) == runs[r].pc = "idle" /\ (IF r = 1 THEN TRUE ELSE runs[r - 1].pc /= "idle")

NoRouteState ==
    /\ UNCHANGED <<session, nav, navCount, calls>>

(***************************************************************************)
(* Profile controller: the fields.                                         *)
(***************************************************************************)
updateDays(value) ==
    /\ days /= value
    /\ days' = value
    /\ UNCHANGED <<reason, user, now, runs, server, lastPush>>
    /\ NoRouteState

\* The reason field is a tracked property the template binds to.
updateReason(value) ==
    /\ reason /= value
    /\ reason' = value
    /\ UNCHANGED <<days, user, now, runs, server, lastPush>>
    /\ NoRouteState

\* Time passes.
Tick ==
    /\ now < MaxTime
    /\ now' = now + 1
    /\ UNCHANGED <<days, reason, user, runs, server, lastPush>>
    /\ NoRouteState

(***************************************************************************)
(* lockTask / unlockTask up to the await: the request is built from the    *)
(* fields as they are now, and sent.                                       *)
(***************************************************************************)
lockRequest == [method |-> "PUT", url |-> LockUrl, body |-> Some(asPayload(days, reason, now))]

unlockRequest == [method |-> "DELETE", url |-> LockUrl, body |-> None]

performLock(r) ==
    /\ NextRun(r)
    /\ runs' = [runs EXCEPT ![r] = [@ EXCEPT !.kind = "lock", !.pc = "awaiting",
                                              !.request = Some(lockRequest), !.sent = @ + 1]]
    /\ UNCHANGED <<days, reason, user, now, server, lastPush>>
    /\ NoRouteState

performUnlock(r) ==
    /\ NextRun(r)
    /\ runs' = [runs EXCEPT ![r] = [@ EXCEPT !.kind = "unlock", !.pc = "awaiting",
                                              !.request = Some(unlockRequest), !.sent = @ + 1]]
    /\ UNCHANGED <<days, reason, user, now, server, lastPush>>
    /\ NoRouteState

(***************************************************************************)
(* The remote service: PUT .../lock stores the lock and answers with the   *)
(* updated user, DELETE .../lock removes it and answers with the updated   *)
(* user; a request may also fail, leaving the service's state as it was.   *)
(***************************************************************************)
serverAnswer(r, lock) ==
    /\ server' = [user |-> [server.user EXCEPT !.lock = lock], seq |-> server.seq + 1]
    /\ runs' = [runs EXCEPT ![r] = [@ EXCEPT !.pc = "fulfilled",
                                              !.response = Some(server'.user),
                                              !.seq = server'.seq]]
    /\ UNCHANGED <<days, reason, user, now, lastPush>>
    /\ NoRouteState

serverLock(r) ==
    /\ runs[r].pc = "awaiting"
    /\ runs[r].request[1].method = "PUT"
    /\ LET body == runs[r].request[1].body[1]
       IN  serverAnswer(r, LockRecord(Some(body.reason), body.until))

serverUnlock(r) ==
    /\ runs[r].pc = "awaiting"
    /\ runs[r].request[1].method = "DELETE"
    /\ serverAnswer(r, None)

requestFails(r) ==
    /\ runs[r].pc = "awaiting"
    /\ runs' = [runs EXCEPT ![r] = [@ EXCEPT !.pc = "rejected"]]
    /\ UNCHANGED <<days, reason, user, now, server, lastPush>>
    /\ NoRouteState

(***************************************************************************)
(* lockTask / unlockTask after the await.                                  *)
(***************************************************************************)
Note(type, text) == [type |-> type, text |-> text]

\* The task instance is over: its locals are gone.
Finished(run, outcome) ==
    [run EXCEPT !.pc = "done", !.request = None, !.response = None, !.outcome = outcome]

taskFulfilledNoPush(r, text) ==
    /\ runs' = [runs EXCEPT ![r] = Finished([@ EXCEPT !.notes = Append(@, Note("success", text))], "ok")]
    /\ days' = resetDays
    /\ reason' = resetReason
    /\ user' = user
    /\ lastPush' = [lock |-> runs[r].response[1].lock, seq |-> runs[r].seq, run |-> r]
    /\ UNCHANGED <<now, server>>
    /\ NoRouteState

taskFulfilledNoReset(r, text) ==
    /\ runs' = [runs EXCEPT ![r] = Finished([@ EXCEPT !.notes = Append(@, Note("success", text))], "ok")]
    /\ user' = StorePush(user, runs[r].response[1])
    /\ lastPush' = [lock |-> runs[r].response[1].lock, seq |-> runs[r].seq, run |-> r]
    /\ UNCHANGED <<days, reason, now, server>>
    /\ NoRouteState

\* notifications.success(text); this.reset(); store.push(store.normalize('user', user))
taskFulfilled(r, text) ==
    /\ runs' = [runs EXCEPT ![r] = Finished([@ EXCEPT !.notes = Append(@, Note("success", text))], "ok")]
    /\ days' = resetDays
    /\ reason' = resetReason
    /\ user' = StorePush(user, runs[r].response[1])
    /\ lastPush' = [lock |-> runs[r].response[1].lock, seq |-> runs[r].seq, run |-> r]
    /\ UNCHANGED <<now, server>>
    /\ NoRouteState

taskRejectedAndReset(r, text) ==
    /\ runs' = [runs EXCEPT ![r] = Finished([@ EXCEPT !.notes = Append(@, Note("error", text)),
                                                       !.sentry = @ + 1], "failed")]
    /\ days' = resetDays
    /\ reason' = resetReason
    /\ UNCHANGED <<user, now, server, lastPush>>
    /\ NoRouteState

\* catch (e): notifications.error(text); sentry.captureException(e); console.error(e)
taskRejected(r, text) ==
    /\ runs' = [runs EXCEPT ![r] = Finished([@ EXCEPT !.notes = Append(@, Note("error", text)),
                                                       !.sentry = @ + 1], "failed")]
    /\ UNCHANGED <<days, reason, user, now, server, lastPush>>
    /\ NoRouteState

lockTaskFulfilled(r) ==
    /\ runs[r].kind = "lock" /\ runs[r].pc = "fulfilled"
    /\ taskFulfilled(r, "User account locked")

lockTaskRejected(r) ==
    /\ runs[r].kind = "lock" /\ runs[r].pc = "rejected"
    /\ taskRejected(r, "An error occurred while locking the account.")

unlockTaskFulfilled(r) ==
    /\ runs[r].kind = "unlock" /\ runs[r].pc = "fulfilled"
    /\ taskFulfilled(r, "User account unlocked")

unlockTaskRejected(r) ==
    /\ runs[r].kind = "unlock" /\ runs[r].pc = "rejected"
    /\ taskRejected(r, "An error occurred while unlocking the account.")

(***************************************************************************)
(* Specification of the profile controller's lock / unlock tasks. The      *)
(* tasks read the clock only in asPayload(); the clock stands still here   *)
(* and moves in SpecDerive.                                                *)
(***************************************************************************)
NoNav == [target |-> "none", user_id |-> "", page |-> "1", id |-> 0, pc |-> "idle",
          events |-> <<>>, threw |-> FALSE, outcome |-> "none", cratesOutcome |-> "none"]

NoSession == [authenticated |-> TRUE, isAdmin |-> TRUE, savedTransition |-> 0]

IdleCall == [op |-> "none", pc |-> "idle", email |-> "", enabled |-> FALSE, result |-> "none"]

RouteIdle ==
    /\ session = NoSession
    /\ nav = NoNav
    /\ navCount = 0
    /\ calls = [c \in 1..MaxCalls |-> IdleCall]

Init ==
    /\ days = resetDays
    /\ reason = resetReason
    /\ \E l \in SomeLocks : /\ user = UserRecord(l)
                            /\ server = [user |-> UserRecord(l), seq |-> 0]
    /\ now = 0
    /\ runs = [r \in Runs |-> IdleRun]
    /\ lastPush = [lock |-> None, seq |-> 0, run |-> 0]
    /\ RouteIdle

Next ==
    \/ \E v \in SomeDaysTexts : updateDays(v)
    \/ \E v \in ReasonTexts : updateReason(v)
    \/ \E r \in Runs : performLock(r)
    \/ \E r \in Runs : performUnlock(r)
    \/ \E r \in Runs : serverLock(r)
    \/ \E r \in Runs : serverUnlock(r)
    \/ \E r \in Runs : requestFails(r)
    \/ \E r \in Runs : lockTaskFulfilled(r)
    \/ \E r \in Runs : lockTaskRejected(r)
    \/ \E r \in Runs : unlockTaskFulfilled(r)
    \/ \E r \in Runs : unlockTaskRejected(r)

Spec == Init /\ [][Next]_vars

(***************************************************************************)
(* Specification of the controller's derived state and of asPayload(): the *)
(* fetched user carries any lock record, the operator types any day text,  *)
(* time passes, and lock requests are built.                               *)
(***************************************************************************)
InitDerive ==
    /\ days = resetDays
    /\ reason = resetReason
    /\ \E l \in InitLocks : /\ user = UserRecord(l)
                            /\ server = [user |-> UserRecord(l), seq |-> 0]
    /\ now = 0
    /\ runs = [r \in Runs |-> IdleRun]
    /\ lastPush = [lock |-> None, seq |-> 0, run |-> 0]
    /\ RouteIdle

NextDerive ==
    \/ \E v \in DaysTexts : updateDays(v)
    \/ Tick
    \/ \E r \in Runs : performLock(r)

SpecDerive == InitDerive /\ [][NextDerive]_vars

(***************************************************************************)
(* C1: for every cached lock record and every time, the derived state is   *)
(* exactly one of: not locked (no reason), currently locked (reason, and   *)
(* no until or until strictly after now), previously locked (reason, and   *)
(* until at or before now).                                                *)
(***************************************************************************)
HasReason == user.lock /= None /\ user.lock[1].reason \notin {None, Some("")}

C1_LockStateDerivation ==
    /\ ~HasReason => (~isCurrentlyLocked /\ ~wasPreviouslyLocked)
    /\ (HasReason /\ (user.lock[1].until = None \/ user.lock[1].until[1] > now))
          => (isCurrentlyLocked /\ ~wasPreviouslyLocked)
    /\ (HasReason /\ user.lock[1].until /= None /\ user.lock[1].until[1] <= now)
          => (~isCurrentlyLocked /\ wasPreviouslyLocked)

\* A lock whose until equals now: previously locked.
C1_Witness ==
    /\ HasReason
    /\ user.lock[1].until = Some(now)
    /\ now > 0
    /\ wasPreviouslyLocked

(***************************************************************************)
(* C5: asPayload() keeps the reason, yields until = now + N when the days  *)
(* text is a day count N, and until = null for every text that is not a    *)
(* day count, the empty and the white space only text included.            *)
(***************************************************************************)
IsDayCount(text) == Trim(text) /= <<>> /\ ToNumber(text) /= None

BuildsLockRequest(r) == runs[r].pc = "idle" /\ runs'[r].pc = "awaiting" /\ runs'[r].kind = "lock"

C5_PayloadStep ==
    \A r \in Runs : BuildsLockRequest(r) =>
        LET body == runs'[r].request[1].body[1] IN
        /\ body.reason = reason
        /\ IsDayCount(days) => body.until = Some(now + ToNumber(days)[1])
        /\ ~IsDayCount(days) => body.until = None
        /\ days' = days /\ reason' = reason

C5_AsPayload == [][C5_PayloadStep]_vars

(***************************************************************************)
(* C6: each lock run issues exactly one PUT to the lock endpoint with the  *)
(* payload of the fields as they were when it started, each unlock run     *)
(* exactly one DELETE without a body; on success the run shows a success   *)
(* notification, resets days and reason, and the cached user is the user   *)
(* the server returned.                                                    *)
(***************************************************************************)
InFlight(r) == runs[r].pc \in {"awaiting", "fulfilled", "rejected"}

SuccessText(kind) == IF kind = "lock" THEN "User account locked" ELSE "User account unlocked"

C6_State ==
    \A r \in Runs :
        /\ runs[r].pc /= "idle" => runs[r].sent = 1
        /\ InFlight(r) =>
              /\ runs[r].request /= None
              /\ runs[r].request[1].url = <<"/api/v1/users/", "alice", "/lock">>
              /\ runs[r].request[1].method = (IF runs[r].kind = "lock" THEN "PUT" ELSE "DELETE")
              /\ runs[r].kind = "unlock" => runs[r].request[1].body = None
        /\ runs[r].outcome = "ok" => runs[r].notes = <<Note("success", SuccessText(runs[r].kind))>>

C6_Step ==
    \A r \in Runs :
        /\ BuildsLockRequest(r) =>
              runs'[r].request[1].body = Some(asPayload(days, reason, now))
        /\ (runs[r].pc = "fulfilled" /\ runs'[r].pc = "done") =>
              /\ runs'[r].outcome = "ok"
              /\ days' = <<"7">>
              /\ reason' = "Please contact help@crates.io."
              /\ user' = runs[r].response[1]

C6_LockUnlockSuccess == [](C6_State) /\ [][C6_Step]_vars

\* A lock run built from typed fields has succeeded and reset them.
C6_Witness ==
    \E r \in Runs :
        /\ runs[r].kind = "lock" /\ runs[r].outcome = "ok"
        /\ user.lock /= None /\ user.lock[1].reason = Some("spam") /\ user.lock[1].until = None
        /\ days = <<"7">> /\ reason = DefaultReason

(***************************************************************************)
(* C8: a failed lock / unlock run shows one error notification, reports to *)
(* sentry once, does not re-throw, sends no further request and leaves     *)
(* days, reason and the cached user as they were.                          *)
(***************************************************************************)
ErrorText(kind) ==
    IF kind = "lock" THEN "An error occurred while locking the account."
    ELSE "An error occurred while unlocking the account."

C8_State ==
    \A r \in Runs : runs[r].outcome = "failed" =>
        /\ runs[r].notes = <<Note("error", ErrorText(runs[r].kind))>>
        /\ runs[r].sentry = 1
        /\ ~runs[r].thrown
        /\ runs[r].sent = 1
        /\ runs[r].pc = "done"

C8_Step ==
    \A r \in Runs : (runs[r].pc = "rejected" /\ runs'[r].pc = "done") =>
        /\ runs'[r].outcome = "failed"
        /\ days' = days /\ reason' = reason /\ user' = user

C8_LockUnlockFailure == [](C8_State) /\ [][C8_Step]_vars

\* A run has failed while the operator's typed fields are still in place.
C8_Witness ==
    \E r \in Runs : runs[r].outcome = "failed" /\ days = <<>> /\ reason = "spam"

(***************************************************************************)
(* C10 as stated: once every lock / unlock request has completed           *)
(* successfully, the cached lock is the lock the server holds.             *)
(***************************************************************************)
AllSettledOk ==
    /\ \E r \in Runs : runs[r].pc /= "idle"
    /\ \A r \in Runs : runs[r].pc \in {"idle", "done"} /\ runs[r].outcome /= "failed"

C10_ClientMatchesServer == AllSettledOk => user.lock = server.user.lock

(***************************************************************************)
(* C10 amended: once every lock / unlock request has completed             *)
(* successfully, the cached lock is the lock carried by the response that  *)
(* arrived last; it is the lock the server holds when that response is the *)
(* one of the request the server processed last.                           *)
(***************************************************************************)
C10_LastResponseWins ==
    AllSettledOk =>
        /\ user.lock = lastPush.lock
        /\ lastPush.seq = server.seq => user.lock = server.user.lock

\* Two overlapping runs whose responses arrived in the opposite order.
C10_Witness ==
    /\ AllSettledOk
    /\ runs[1].pc = "done" /\ runs[2].pc = "done"
    /\ runs[1].kind /= runs[2].kind
    /\ lastPush.seq < server.seq

(***************************************************************************)
(* Navigation through the admin routes.                                    *)
(*   nav.pc: admin.beforeModel -> admin.check -> user.model ->             *)
(*           user.awaiting -> (user.index | crates.model -> crates.awaiting)*)
(*           -> settled | aborted (replaced by a redirect) | error         *)
(*   nav.events: the redirects and data requests issued for the navigation *)
(***************************************************************************)
Targets == {"admin.index", "admin.user.index", "admin.user.profile", "admin.user.crates"}

UserIds == {"ghost", "alice"}

Pages == {"1", "2"}

Sessions ==
    {[authenticated |-> FALSE, isAdmin |-> FALSE, savedTransition |-> 0],
     [authenticated |-> TRUE, isAdmin |-> FALSE, savedTransition |-> 0],
     [authenticated |-> TRUE, isAdmin |-> TRUE, savedTransition |-> 0]}

\* The ways the admin user fetch ends: the response, or the error thrown by ajax().
HttpError(status) == [isHttpError |-> TRUE, status |-> status]

OtherError == [isHttpError |-> FALSE, status |-> None]

FetchErrors == {HttpError(Some("404")), HttpError(Some("500")), HttpError(None), OtherError}

\* The ways the crates query ends in failure: a NotFoundError or another error.
QueryErrors == {"NotFoundError", "ServerError"}

Redirect(by, to, transition, title, loginNeeded, tryAgain, error) ==
    [type |-> "redirect", by |-> by, to |-> to, transition |-> transition, title |-> title,
     loginNeeded |-> loginNeeded, tryAgain |-> tryAgain, error |-> error]

Request(by, what) ==
    [type |-> "request", by |-> by, to |-> what, transition |-> 0, title |-> <<>>,
     loginNeeded |-> None, tryAgain |-> None, error |-> None]

NoControllerState ==
    /\ UNCHANGED <<days, reason, now, runs, server, lastPush, calls>>

NavIdle == nav.pc \in {"idle", "settled", "aborted", "error"}

\* router.transitionTo(...): a navigation to an admin route starts.
transitionTo(target, user_id, page) ==
    /\ NavIdle
    /\ navCount < MaxNavs
    /\ navCount' = navCount + 1
    /\ nav' = [NoNav EXCEPT !.target = target, !.user_id = user_id, !.page = page,
                            !.id = navCount + 1, !.pc = "admin.beforeModel"]
    /\ UNCHANGED <<session, user>>
    /\ NoControllerState

\* AdminIndexController.searchUser(): transitionTo('admin.user', { user_id: username })
searchUser(username) == transitionTo("admin.user.index", username, "1")

\* The base authentication guard (super.beforeModel): an unauthenticated visitor is
\* redirected by the guard itself; the guard then returns.
authenticatedBeforeModel ==
    /\ nav.pc = "admin.beforeModel"
    /\ nav' = [nav EXCEPT !.pc = "admin.check",
                          !.events = IF session.authenticated THEN @
                                     ELSE Append(@, Redirect("authenticated", "catch-all", nav.id,
                                                             <<"This page requires authentication">>,
                                                             Some(TRUE), None, None))]
    /\ UNCHANGED <<session, user, navCount>>
    /\ NoControllerState

\* The first model hook below the admin route, by the target of the navigation.
AfterAdmin(target) == IF target = "admin.index" THEN "settled" ELSE "user.model"

adminBeforeModelInverted ==
    /\ nav.pc = "admin.check"
    /\ IF session.isAdmin
       THEN /\ session' = [session EXCEPT !.savedTransition = nav.id]
            /\ nav' = [nav EXCEPT !.pc = "aborted",
                                  !.events = Append(@, Redirect("admin", "catch-all", nav.id,
                                                                <<"This page requires authentication">>,
                                                                Some(TRUE), None, None))]
       ELSE /\ nav' = [nav EXCEPT !.pc = AfterAdmin(nav.target)]
            /\ UNCHANGED session
    /\ UNCHANGED <<user, navCount>>
    /\ NoControllerState

\* AdminRoute.beforeModel after `await super.beforeModel(transition)`
adminBeforeModel ==
    /\ nav.pc = "admin.check"
    /\ IF ~session.isAdmin
       THEN /\ session' = [session EXCEPT !.savedTransition = nav.id]
            /\ nav' = [nav EXCEPT !.pc = "aborted",
                                  !.events = Append(@, Redirect("admin", "catch-all", nav.id,
                                                                <<"This page requires authentication">>,
                                                                Some(TRUE), None, None))]
       ELSE /\ nav' = [nav EXCEPT !.pc = AfterAdmin(nav.target)]
            /\ UNCHANGED session
    /\ UNCHANGED <<user, navCount>>
    /\ NoControllerState

\* AdminUserRoute.model up to the await: ajax(`/api/v1/users/${user_id}/admin`)
adminUserModel ==
    /\ nav.pc = "user.model"
    /\ nav' = [nav EXCEPT !.pc = "user.awaiting",
                          !.events = Append(@, Request("admin.user",
                                                       <<"/api/v1/users/", nav.user_id, "/admin">>))]
    /\ UNCHANGED <<session, user, navCount>>
    /\ NoControllerState

AfterUser(target) ==
    CASE target = "admin.user.index" -> "user.index"
      [] target = "admin.user.crates" -> "crates.model"
      [] OTHER -> "settled"

\* AdminUserRoute.model, the fetch succeeded: { user: store.push(store.normalize('user', response)) }
adminUserModelFulfilled ==
    /\ nav.pc = "user.awaiting"
    /\ user' = StorePush(user, server.user)
    /\ nav' = [nav EXCEPT !.pc = AfterUser(nav.target), !.outcome = "ok"]
    /\ UNCHANGED <<session, navCount>>
    /\ NoControllerState

isNotFoundAnyHttpError(error) == error.isHttpError

\* error instanceof HttpError && error.response?.status === 404
isNotFound(error) == error.isHttpError /\ error.status = Some("404")

\* AdminUserRoute.model, the fetch failed: the catch block.
adminUserModelRejected(error) ==
    /\ nav.pc = "user.awaiting"
    /\ nav' = [nav EXCEPT
                 !.pc = "aborted",
                 !.outcome = IF error.isHttpError
                             THEN (IF error.status = None THEN "http" ELSE error.status[1])
                             ELSE "other",
                 !.events = Append(@,
                     IF isNotFound(error)
                     THEN Redirect("admin.user", "catch-all", nav.id,
                                   <<nav.user_id, ": User not found">>, None, None, Some(error))
                     ELSE Redirect("admin.user", "catch-all", nav.id,
                                   <<nav.user_id, ": Failed to load user data">>, None, Some(TRUE),
                                   Some(error)))]
    /\ UNCHANGED <<session, user, navCount>>
    /\ NoControllerState

\* AdminUserIndexRoute.redirect(): router.replaceWith('admin.user.profile')
adminUserIndexRedirect ==
    /\ nav.pc = "user.index"
    /\ nav' = [nav EXCEPT !.pc = "settled", !.target = "admin.user.profile",
                          !.events = Append(@, Redirect("admin.user.index", "admin.user.profile", nav.id,
                                                        <<>>, None, None, None))]
    /\ UNCHANGED <<session, user, navCount>>
    /\ NoControllerState

\* AdminUserCratesRoute.model up to the await: store.query('crate', params)
adminUserCratesModel ==
    /\ nav.pc = "crates.model"
    /\ nav' = [nav EXCEPT !.pc = "crates.awaiting",
                          !.events = Append(@, Request("admin.user.crates",
                                                       <<"crate", user.id, "yes", nav.page>>))]
    /\ UNCHANGED <<session, user, navCount>>
    /\ NoControllerState

\* AdminUserCratesRoute.model, the query succeeded: { crates, user }
adminUserCratesModelFulfilled ==
    /\ nav.pc = "crates.awaiting"
    /\ nav' = [nav EXCEPT !.pc = "settled", !.cratesOutcome = "ok"]
    /\ UNCHANGED <<session, user, navCount>>
    /\ NoControllerState

\* AdminUserCratesRoute.model, the query failed: both branches of the catch block
\* first evaluate `${user_id}`, an identifier that is declared nowhere in the module,
\* which throws a ReferenceError out of the hook before replaceWith is reached.
adminUserCratesModelRejected(error) ==
    /\ nav.pc = "crates.awaiting"
    /\ nav' = [nav EXCEPT !.pc = "error", !.cratesOutcome = error, !.threw = TRUE]
    /\ UNCHANGED <<session, user, navCount>>
    /\ NoControllerState

InitRoute ==
    /\ days = resetDays
    /\ reason = resetReason
    /\ user = UserRecord(None)
    /\ \E l \in SomeLocks : server = [user |-> UserRecord(l), seq |-> 0]
    /\ now = 0
    /\ runs = [r \in Runs |-> IdleRun]
    /\ lastPush = [lock |-> None, seq |-> 0, run |-> 0]
    /\ session \in Sessions
    /\ nav = NoNav
    /\ navCount = 0
    /\ calls = [c \in 1..MaxCalls |-> IdleCall]

NextRoute ==
    \/ \E t \in Targets, u \in UserIds, p \in Pages : transitionTo(t, u, p)
    \/ \E u \in UserIds : searchUser(u)
    \/ authenticatedBeforeModel
    \/ adminBeforeModel
    \/ adminUserModel
    \/ adminUserModelFulfilled
    \/ \E e \in FetchErrors : adminUserModelRejected(e)
    \/ adminUserIndexRedirect
    \/ adminUserCratesModel
    \/ adminUserCratesModelFulfilled
    \/ \E e \in QueryErrors : adminUserCratesModelRejected(e)

SpecRoute == InitRoute /\ [][NextRoute]_vars

(***************************************************************************)
(* The events of the navigation in progress, by kind and issuer.           *)
(***************************************************************************)
IsRedirect(e) == e.type = "redirect"

IsRequest(e) == e.type = "request"

IsByAdminUser(e) == e.type = "redirect" /\ e.by = "admin.user"

IsByCrates(e) == e.type = "redirect" /\ e.by = "admin.user.crates"

Redirects == SelectSeq(nav.events, IsRedirect)

Requests == SelectSeq(nav.events, IsRequest)

(***************************************************************************)
(* C2: for an authenticated session that is not admin, AdminRoute's        *)
(* beforeModel stores the transition in session.savedTransition and        *)
(* redirects to 'catch-all' (transition, loginNeeded, fixed title), and no *)
(* admin data request is issued for the navigation, before or after.       *)
(***************************************************************************)
GuardHasRun == nav.pc \notin {"idle", "admin.beforeModel", "admin.check"}

C2_NonAdminRedirectedBeforeFetch ==
    (session.authenticated /\ ~session.isAdmin) =>
        /\ Requests = <<>>
        /\ GuardHasRun =>
              /\ nav.pc = "aborted"
              /\ session.savedTransition = nav.id
              /\ nav.events = <<[type |-> "redirect", by |-> "admin", to |-> "catch-all",
                                 transition |-> nav.id,
                                 title |-> <<"This page requires authentication">>,
                                 loginNeeded |-> Some(TRUE), tryAgain |-> None, error |-> None]>>

\* A non-admin's second navigation, to the crates route, has been stopped by the guard.
C2_Witness ==
    /\ session.authenticated /\ ~session.isAdmin
    /\ nav.target = "admin.user.crates"
    /\ nav.pc = "aborted"
    /\ nav.id = 2

(***************************************************************************)
(* C3: a failed admin user fetch ends in exactly one redirect to           *)
(* 'catch-all' without throwing: an HttpError with status 404 gives the    *)
(* title '<id>: User not found' and no tryAgain, every other failure       *)
(* '<id>: Failed to load user data' and tryAgain true; a successful fetch  *)
(* gives no redirect, and one fetch was made.                              *)
(***************************************************************************)
UserFetches == SelectSeq(nav.events, LAMBDA e : e.type = "request" /\ e.by = "admin.user")

UserRedirects == SelectSeq(nav.events, IsByAdminUser)

C3_UserLookupFailure ==
    /\ nav.outcome /= "none" =>
          /\ UserFetches = <<Request("admin.user", <<"/api/v1/users/", nav.user_id, "/admin">>)>>
    /\ nav.outcome = "ok" => UserRedirects = <<>>
    /\ nav.outcome \notin {"none", "ok"} => (nav.pc = "aborted" /\ ~nav.threw)
    /\ nav.outcome = "404" =>
          /\ Len(UserRedirects) = 1
          /\ UserRedirects[1].to = "catch-all"
          /\ UserRedirects[1].title = <<nav.user_id, ": User not found">>
          /\ UserRedirects[1].tryAgain = None
          /\ UserRedirects[1].transition = nav.id
    /\ nav.outcome \in {"500", "http", "other"} =>
          /\ Len(UserRedirects) = 1
          /\ UserRedirects[1].to = "catch-all"
          /\ UserRedirects[1].title = <<nav.user_id, ": Failed to load user data">>
          /\ UserRedirects[1].tryAgain = Some(TRUE)
          /\ UserRedirects[1].transition = nav.id

\* The fetch for "ghost" failed with an HttpError that is not a 404.
C3_Witness ==
    /\ nav.user_id = "ghost"
    /\ nav.outcome = "500"
    /\ nav.pc = "aborted"

(***************************************************************************)
(* C4: a failed crates query ends in a redirect to 'catch-all' ('User not  *)
(* found' without tryAgain for a not-found failure, 'Failed to load user   *)
(* data' with tryAgain true otherwise), and no error escapes the hook.     *)
(***************************************************************************)
CratesRedirects == SelectSeq(nav.events, IsByCrates)

C4_CratesQueryFailure ==
    nav.cratesOutcome \in QueryErrors =>
        /\ ~nav.threw
        /\ Len(CratesRedirects) = 1
        /\ CratesRedirects[1].to = "catch-all"
        /\ IF nav.cratesOutcome = "NotFoundError"
           THEN CratesRedirects[1].title[2] = ": User not found"
                /\ CratesRedirects[1].tryAgain = None
           ELSE CratesRedirects[1].title[2] = ": Failed to load user data"
                /\ CratesRedirects[1].tryAgain = Some(TRUE)

(***************************************************************************)
(* C7: for an unauthenticated visitor the only redirect of the navigation  *)
(* is the base guard's: AdminRoute's beforeModel adds no redirect to       *)
(* 'catch-all' and does not write session.savedTransition.                 *)
(***************************************************************************)
C7_OnlyBaseGuardRedirects ==
    ~session.authenticated =>
        /\ Len(Redirects) <= 1
        /\ \A i \in 1..Len(Redirects) : Redirects[i].by = "authenticated"
        /\ session.savedTransition = 0

(***************************************************************************)
(* The User model's remote actions. Each invocation awaits apiAction(),    *)
(* which is fulfilled or rejected by the remote service, and then runs the *)
(* rest of the method.                                                     *)
(*   pc: idle -> awaiting -> fulfilled / rejected -> done                  *)
(*   result: "returned" or "threw" (the rejection reaches the caller)      *)
(***************************************************************************)
Calls == 1..MaxCalls

NextCall(c) == calls[c].pc = "idle" /\ (IF c = 1 THEN TRUE ELSE calls[c - 1].pc /= "idle")

OnlyCalls ==
    /\ UNCHANGED <<days, reason, now, runs, lastPush, session, nav, navCount>>

\* changeEmail(email) up to the await
changeEmail(c, email) ==
    /\ NextCall(c)
    /\ calls' = [calls EXCEPT ![c] = [@ EXCEPT !.op = "changeEmail", !.pc = "awaiting", !.email = email]]
    /\ UNCHANGED <<user, server>>
    /\ OnlyCalls

\* updatePublishNotifications(enabled) up to the await
updatePublishNotifications(c, enabled) ==
    /\ NextCall(c)
    /\ calls' = [calls EXCEPT ![c] = [@ EXCEPT !.op = "updatePublishNotifications", !.pc = "awaiting",
                                                !.enabled = enabled]]
    /\ UNCHANGED <<user, server>>
    /\ OnlyCalls

\* resendVerificationEmail() up to the await
resendVerificationEmail(c) ==
    /\ NextCall(c)
    /\ calls' = [calls EXCEPT ![c] = [@ EXCEPT !.op = "resendVerificationEmail", !.pc = "awaiting"]]
    /\ UNCHANGED <<user, server>>
    /\ OnlyCalls

\* The remote service carries the request out.
apiActionFulfilled(c) ==
    /\ calls[c].pc = "awaiting"
    /\ calls' = [calls EXCEPT ![c] = [@ EXCEPT !.pc = "fulfilled"]]
    /\ server' = [server EXCEPT !.user =
                    CASE calls[c].op = "changeEmail" ->
                             [@ EXCEPT !.email = calls[c].email, !.email_verified = FALSE,
                                       !.email_verification_sent = TRUE]
                      [] calls[c].op = "updatePublishNotifications" ->
                             [@ EXCEPT !.publish_notifications = calls[c].enabled]
                      [] OTHER -> [@ EXCEPT !.email_verification_sent = TRUE]]
    /\ UNCHANGED user
    /\ OnlyCalls

\* The request fails.
apiActionRejected(c) ==
    /\ calls[c].pc = "awaiting"
    /\ calls' = [calls EXCEPT ![c] = [@ EXCEPT !.pc = "rejected"]]
    /\ UNCHANGED <<user, server>>
    /\ OnlyCalls

Returned(call) == [call EXCEPT !.pc = "done", !.result = "returned"]

changeEmailPayloadKeepsVerified(id, email) ==
    [id |-> id, email |-> email, email_verification_sent |-> TRUE]

\* { user: { id: this.id, email, email_verified: false, email_verification_sent: true } }
changeEmailPayload(id, email) ==
    [id |-> id, email |-> email, email_verified |-> FALSE, email_verification_sent |-> TRUE]

\* changeEmail after the await: store.pushPayload(...)
changeEmailFulfilled(c) ==
    /\ calls[c].op = "changeEmail" /\ calls[c].pc = "fulfilled"
    /\ user' = StorePush(user, changeEmailPayload(user.id, calls[c].email))
    /\ calls' = [calls EXCEPT ![c] = Returned(@)]
    /\ UNCHANGED server
    /\ OnlyCalls

\* updatePublishNotifications after the await: store.pushPayload(...)
updatePublishNotificationsFulfilled(c) ==
    /\ calls[c].op = "updatePublishNotifications" /\ calls[c].pc = "fulfilled"
    /\ user' = StorePush(user, [id |-> user.id, publish_notifications |-> calls[c].enabled])
    /\ calls' = [calls EXCEPT ![c] = Returned(@)]
    /\ UNCHANGED server
    /\ OnlyCalls

\* resendVerificationEmail after the await: the response is returned.
resendVerificationEmailFulfilled(c) ==
    /\ calls[c].op = "resendVerificationEmail" /\ calls[c].pc = "fulfilled"
    /\ calls' = [calls EXCEPT ![c] = Returned(@)]
    /\ UNCHANGED <<user, server>>
    /\ OnlyCalls

\* No method catches: the rejection of the awaited promise leaves the method.
awaitThrows(c) ==
    /\ calls[c].pc = "rejected"
    /\ calls' = [calls EXCEPT ![c] = [@ EXCEPT !.pc = "done", !.result = "threw"]]
    /\ UNCHANGED <<user, server>>
    /\ OnlyCalls

InitUser ==
    /\ days = resetDays
    /\ reason = resetReason
    /\ \E l \in SomeLocks : /\ user = UserRecord(l)
                            /\ server = [user |-> UserRecord(l), seq |-> 0]
    /\ now = 0
    /\ runs = [r \in Runs |-> IdleRun]
    /\ lastPush = [lock |-> None, seq |-> 0, run |-> 0]
    /\ RouteIdle

NextUser ==
    \/ \E c \in Calls, e \in Emails : changeEmail(c, e)
    \/ \E c \in Calls, b \in BOOLEAN : updatePublishNotifications(c, b)
    \/ \E c \in Calls : resendVerificationEmail(c)
    \/ \E c \in Calls : apiActionFulfilled(c)
    \/ \E c \in Calls : apiActionRejected(c)
    \/ \E c \in Calls : changeEmailFulfilled(c)
    \/ \E c \in Calls : updatePublishNotificationsFulfilled(c)
    \/ \E c \in Calls : resendVerificationEmailFulfilled(c)
    \/ \E c \in Calls : awaitThrows(c)

SpecUser == InitUser /\ [][NextUser]_vars

(***************************************************************************)
(* C9: the cached user is patched only when the request has succeeded and  *)
(* only in the operation's fields: changeEmail(e) sets email to e,         *)
(* email_verified to false, email_verification_sent to true;               *)
(* updatePublishNotifications(b) sets publish_notifications to b;          *)
(* resendVerificationEmail patches nothing; a failed request reaches the   *)
(* caller as an error and leaves the cached user as it was.                *)
(***************************************************************************)
C9_Step ==
    /\ user' /= user =>
          \E c \in Calls : /\ calls[c].pc = "fulfilled" /\ calls'[c].pc = "done"
                            /\ calls[c].op \in {"changeEmail", "updatePublishNotifications"}
    /\ \A c \in Calls :
        /\ (calls[c].pc = "fulfilled" /\ calls'[c].pc = "done") =>
              /\ calls'[c].result = "returned"
              /\ calls[c].op = "changeEmail" =>
                    user' = [user EXCEPT !.email = calls[c].email, !.email_verified = FALSE,
                                         !.email_verification_sent = TRUE]
              /\ calls[c].op = "updatePublishNotifications" =>
                    user' = [user EXCEPT !.publish_notifications = calls[c].enabled]
              /\ calls[c].op = "resendVerificationEmail" => user' = user
        /\ (calls[c].pc = "rejected" /\ calls'[c].pc = "done") =>
              /\ calls'[c].result = "threw"
              /\ user' = user

C9_EntityMutations == [][C9_Step]_vars

\* An email change on a verified address has been patched in; the lock is still there.
C9_Witness ==
    \E c \in Calls :
        /\ calls[c].op = "changeEmail" /\ calls[c].result = "returned"
        /\ user.email = "new@example.com"
        /\ ~user.email_verified /\ user.email_verification_sent
        /\ user.lock /= None
        /\ \E d \in Calls : calls[d].op = "updatePublishNotifications" /\ calls[d].result = "threw"

====
